---------------------------- MODULE Spec2Model ----------------------------
(***************************************************************************)
(* A model of the SQL validation pipeline of NL-to-SQL                     *)
(* (src/sql_validation.py, class SQLValidator) and of the part of the      *)
(* query flow of src/main.py that constructs a validator and calls it.     *)
(*                                                                         *)
(* The three collaborators that are not part of the repository are         *)
(* modelled by what the validator observes of them:                        *)
(*   - sqlglot.parse        : Parse / ParseRaises over a catalogue of      *)
(*                            concrete SQL texts and a generated family,   *)
(*                            each with the syntax tree the parser builds; *)
(*   - sqlglot.exp          : the eight node-type names the safety check   *)
(*                            looks up (expHasNodeTypes);                   *)
(*   - SQLite via SQLAlchemy: Execute (the effect of one statement on the  *)
(*                            store) and the commit/rollback behaviour of  *)
(*                            `with engine.begin()`.                       *)
(***************************************************************************)
EXTENDS Integers, Sequences, FiniteSets, TLC

VARIABLES
    store,            \* the SQLite database file: table name -> [cols, rows]
    expHasNodeTypes,  \* does the installed sqlglot.exp define all eight names of lines 29-31
    schema_tables,    \* SQLValidator.schema_tables
    schema_columns,   \* SQLValidator.schema_columns
    pc,               \* position of the query flow / of the running validate call
    sql,              \* the argument of the running (or last) validate call
    checks,           \* the `checks` list of validate, as far as it has been evaluated
    verdict,          \* what the last validate call gave back to its caller
    storeAtCall,      \* history: the store when the running validate call began
    storeAtExec,      \* history: the store when execution_check was entered
    ncalls,           \* number of validate calls made so far
    construction,     \* how the last SQLValidator(...) ended: "none", "ok" or "failed"
    sameInstance,     \* history: the last validate call was made on the current instance
    prevVerdict,      \* history: the verdict of the call before, when it was made on
                      \* the same instance with the same SQL (else NoVerdict)
    mpc,              \* position of a run of main: "idle", "init", "page", "import",
                      \* "validate", "summary", "memory" or "history"
    sql_query,        \* main's local sql_query: what generate_sql returned
    executed,         \* history: the strings main passed to DatabaseManager.execute_query
    memory,           \* MemoryManager.memory (the sql of each entry)
    query_history,    \* st.session_state.query_history (the sql of each entry)
    rpc,              \* position of a _reflect_schema call made on the live instance
    rmeta,            \* its local `metadata`: the store as metadata.reflect saw it
    semRead,          \* the catalogue as the running semantic_check has read it
    reflections,      \* history: the stores the instance's catalogue was reflected from
    nreflects,        \* number of such _reflect_schema calls made so far
    selected_db,      \* st.session_state.selected_db, the file db_manager.db_path names
    otherStore,       \* the database file in db/ that is not selected
    memory_file,      \* the database whose memory file memory_manager has loaded
    otherMemory,      \* the content of the memory file that is not loaded
    npage,            \* number of page operations (buttons, selector, new session) so far
    importing         \* the running create_db_from_csv call: [db, table, fit], or NoImport

idemVars == <<sameInstance, prevVerdict>>
mainVars == <<mpc, sql_query, executed, memory, query_history>>
reflVars == <<rpc, rmeta, semRead, reflections, nreflects>>
pageVars == <<selected_db, otherStore, memory_file, otherMemory, npage, importing>>

vars == <<store, expHasNodeTypes, schema_tables, schema_columns, pc, sql, checks,
          verdict, storeAtCall, storeAtExec, ncalls, construction, idemVars,
          mainVars, reflVars, pageVars>>

\* Bound of the model: validate calls in one run.
MaxCalls == 2

\* Bound: the number of _reflect_schema calls made on a live instance.
MaxReflects == 1

\* Bound: the number of page operations of main (Clear Memory, Create
\* Database from CSV, the database selector, a new session).
MaxPageOps == 1

-----------------------------------------------------------------------------
(* Text: a SQL string is a sequence of one-character strings.              *)

LowerCase == <<"a","b","c","d","e","f","g","h","i","j","k","l","m",
               "n","o","p","q","r","s","t","u","v","w","x","y","z">>
UpperCase == <<"A","B","C","D","E","F","G","H","I","J","K","L","M",
               "N","O","P","Q","R","S","T","U","V","W","X","Y","Z">>

\* str.upper() on one character.
UpperChar(ch) ==
    IF \E i \in 1..Len(LowerCase) : LowerCase[i] = ch
    THEN UpperCase[CHOOSE i \in 1..Len(LowerCase) : LowerCase[i] = ch]
    ELSE ch

\* str.upper()
Upper(s) == [i \in 1..Len(s) |-> UpperChar(s[i])]

\* `needle in hay` for strings
Contains(hay, needle) ==
    \E i \in 1..(Len(hay) - Len(needle) + 1) :
        SubSeq(hay, i, i + Len(needle) - 1) = needle

\* Mutant of harmful_keywords: DROP is not on the list.
harmful_keywords_NoDrop ==
    { <<"D","E","L","E","T","E">>, <<"I","N","S","E","R","T">>,
      <<"U","P","D","A","T","E">>, <<"C","R","E","A","T","E">>, <<"A","L","T","E","R">> }

\* harmful_keywords of the lexical fallback
harmful_keywords ==
    { <<"D","R","O","P">>, <<"D","E","L","E","T","E">>, <<"I","N","S","E","R","T">>,
      <<"U","P","D","A","T","E">>, <<"C","R","E","A","T","E">>, <<"A","L","T","E","R">> }

\* The spelling of the identifiers the generated family is built from.
Chars(name) ==
    CASE name = "country"   -> <<"c","o","u","n","t","r","y">>
      [] name = "value"     -> <<"v","a","l","u","e">>
      [] name = "bogus_col" -> <<"b","o","g","u","s","_","c","o","l">>
      [] name = "total"     -> <<"t","o","t","a","l">>
      [] name = "x"         -> <<"x">>
      [] name = "readings"  -> <<"r","e","a","d","i","n","g","s">>
      [] name = "ghost"     -> <<"g","h","o","s","t">>

kwSELECT == <<"S","E","L","E","C","T"," ">>
kwAS     == <<" ","A","S"," ">>
kwFROM   == <<" ","F","R","O","M"," ">>
kwWHERE  == <<" ","W","H","E","R","E"," ">>
kwGT0    == <<" ",">"," ","0">>

-----------------------------------------------------------------------------
(* Inputs of validate.                                                     *)

\* A named SQL text of the catalogue, a member of the generated family
\*   SELECT <c> [AS <a>] FROM <t> [WHERE <w> > 0]
\* or the None that generate_sql returns on error.
In(id, c, a, t, w) == [id |-> id, c |-> c, a |-> a, t |-> t, w |-> w]
Named(id) == In(id, "", "", "", "")
None == Named("None")

CatalogueIds ==
    { "q_ok", "q_agg", "q_bogus", "q_alias", "q_aliasbog", "q_ghost", "q_cte", "q_sub",
      "q_union", "q_drop", "q_dropl", "q_delete", "q_insert", "q_update", "q_create",
      "q_alter", "q_rename", "q_trunc", "q_ctedel", "q_multi", "q_multit", "q_empty",
      "q_lit",
      "u_sel", "u_drop", "u_upd" }

FamCols    == {"country", "bogus_col", "total"}
FamAliases == {"", "total", "x"}
FamTables  == {"readings", "ghost"}
FamWheres  == {"", "total", "bogus_col", "x"}

Family == { In("fam", c, a, t, w) : c \in FamCols, a \in FamAliases,
                                    t \in FamTables, w \in FamWheres }

\* Everything generate_sql can hand to validate.
Strings == { Named(id) : id \in CatalogueIds } \cup Family
Inputs == Strings \cup {None}

\* The characters of each catalogue text.
CatalogueText(q) ==
    CASE q = "q_ok" ->  \* SELECT country FROM readings
           <<"S","E","L","E","C","T"," ","c","o","u","n","t","r","y"," ","F","R","O","M"," ",
      "r","e","a","d","i","n","g","s">>
      [] q = "q_agg" ->  \* SELECT country, AVG(value) AS avg_value FROM readings GROUP BY country
           <<"S","E","L","E","C","T"," ","c","o","u","n","t","r","y",","," ","A","V","G","(",
      "v","a","l","u","e",")"," ","A","S"," ","a","v","g","_","v","a","l","u","e"," ",
      "F","R","O","M"," ","r","e","a","d","i","n","g","s"," ","G","R","O","U","P"," ",
      "B","Y"," ","c","o","u","n","t","r","y">>
      [] q = "q_bogus" ->  \* SELECT bogus_col FROM readings
           <<"S","E","L","E","C","T"," ","b","o","g","u","s","_","c","o","l"," ","F","R","O",
      "M"," ","r","e","a","d","i","n","g","s">>
      [] q = "q_alias" ->  \* SELECT value AS total FROM readings WHERE total > 0
           <<"S","E","L","E","C","T"," ","v","a","l","u","e"," ","A","S"," ","t","o","t","a",
      "l"," ","F","R","O","M"," ","r","e","a","d","i","n","g","s"," ","W","H","E","R",
      "E"," ","t","o","t","a","l"," ",">"," ","0">>
      [] q = "q_aliasbog" ->  \* SELECT AVG(bogus_col) AS x FROM readings
           <<"S","E","L","E","C","T"," ","A","V","G","(","b","o","g","u","s","_","c","o","l",
      ")"," ","A","S"," ","x"," ","F","R","O","M"," ","r","e","a","d","i","n","g","s">>
      [] q = "q_ghost" ->  \* SELECT bogus_col FROM ghost
           <<"S","E","L","E","C","T"," ","b","o","g","u","s","_","c","o","l"," ","F","R","O",
      "M"," ","g","h","o","s","t">>
      [] q = "q_cte" ->  \* WITH c AS (SELECT value AS y FROM readings) SELECT y FROM c
           <<"W","I","T","H"," ","c"," ","A","S"," ","(","S","E","L","E","C","T"," ","v","a",
      "l","u","e"," ","A","S"," ","y"," ","F","R","O","M"," ","r","e","a","d","i","n",
      "g","s",")"," ","S","E","L","E","C","T"," ","y"," ","F","R","O","M"," ","c">>
      [] q = "q_sub" ->  \* SELECT country FROM (SELECT country, value AS v FROM readings) WHERE v > 0
           <<"S","E","L","E","C","T"," ","c","o","u","n","t","r","y"," ","F","R","O","M"," ",
      "(","S","E","L","E","C","T"," ","c","o","u","n","t","r","y",","," ","v","a","l",
      "u","e"," ","A","S"," ","v"," ","F","R","O","M"," ","r","e","a","d","i","n","g",
      "s",")"," ","W","H","E","R","E"," ","v"," ",">"," ","0">>
      [] q = "q_union" ->  \* SELECT country FROM readings UNION SELECT value FROM readings
           <<"S","E","L","E","C","T"," ","c","o","u","n","t","r","y"," ","F","R","O","M"," ",
      "r","e","a","d","i","n","g","s"," ","U","N","I","O","N"," ","S","E","L","E","C",
      "T"," ","v","a","l","u","e"," ","F","R","O","M"," ","r","e","a","d","i","n","g",
      "s">>
      [] q = "q_drop" ->  \* DROP TABLE readings
           <<"D","R","O","P"," ","T","A","B","L","E"," ","r","e","a","d","i","n","g","s">>
      [] q = "q_dropl" ->  \* drop table readings
           <<"d","r","o","p"," ","t","a","b","l","e"," ","r","e","a","d","i","n","g","s">>
      [] q = "q_delete" ->  \* DELETE FROM readings
           <<"D","E","L","E","T","E"," ","F","R","O","M"," ","r","e","a","d","i","n","g","s">>
      [] q = "q_insert" ->  \* INSERT INTO readings VALUES ('x', 1)
           <<"I","N","S","E","R","T"," ","I","N","T","O"," ","r","e","a","d","i","n","g","s",
      " ","V","A","L","U","E","S"," ","(","'","x","'",","," ","1",")">>
      [] q = "q_update" ->  \* UPDATE readings SET value = 0
           <<"U","P","D","A","T","E"," ","r","e","a","d","i","n","g","s"," ","S","E","T"," ",
      "v","a","l","u","e"," ","="," ","0">>
      [] q = "q_create" ->  \* CREATE TABLE scratch (note TEXT)
           <<"C","R","E","A","T","E"," ","T","A","B","L","E"," ","s","c","r","a","t","c","h",
      " ","(","n","o","t","e"," ","T","E","X","T",")">>
      [] q = "q_alter" ->  \* ALTER TABLE readings ADD COLUMN note TEXT
           <<"A","L","T","E","R"," ","T","A","B","L","E"," ","r","e","a","d","i","n","g","s",
      " ","A","D","D"," ","C","O","L","U","M","N"," ","n","o","t","e"," ","T","E","X",
      "T">>
      [] q = "q_rename" ->  \* ALTER TABLE readings RENAME TO archive
           <<"A","L","T","E","R"," ","T","A","B","L","E"," ","r","e","a","d","i","n","g","s",
      " ","R","E","N","A","M","E"," ","T","O"," ","a","r","c","h","i","v","e">>
      [] q = "q_trunc" ->  \* TRUNCATE TABLE readings
           <<"T","R","U","N","C","A","T","E"," ","T","A","B","L","E"," ","r","e","a","d","i",
      "n","g","s">>
      [] q = "q_ctedel" ->  \* WITH d AS (DELETE FROM readings RETURNING country) SELECT country FROM d
           <<"W","I","T","H"," ","d"," ","A","S"," ","(","D","E","L","E","T","E"," ","F","R",
      "O","M"," ","r","e","a","d","i","n","g","s"," ","R","E","T","U","R","N","I","N",
      "G"," ","c","o","u","n","t","r","y",")"," ","S","E","L","E","C","T"," ","c","o",
      "u","n","t","r","y"," ","F","R","O","M"," ","d">>
      [] q = "q_multi" ->  \* SELECT country FROM readings; DROP TABLE readings
           <<"S","E","L","E","C","T"," ","c","o","u","n","t","r","y"," ","F","R","O","M"," ",
      "r","e","a","d","i","n","g","s",";"," ","D","R","O","P"," ","T","A","B","L","E",
      " ","r","e","a","d","i","n","g","s">>
      [] q = "q_multit" ->  \* SELECT country FROM readings; TRUNCATE TABLE readings
           <<"S","E","L","E","C","T"," ","c","o","u","n","t","r","y"," ","F","R","O","M"," ",
      "r","e","a","d","i","n","g","s",";"," ","T","R","U","N","C","A","T","E"," ","T",
      "A","B","L","E"," ","r","e","a","d","i","n","g","s">>
      [] q = "q_lit" ->  \* SELECT country FROM readings WHERE country = 'Dropbox'
           <<"S","E","L","E","C","T"," ","c","o","u","n","t","r","y"," ","F","R","O",
      "M"," ","r","e","a","d","i","n","g","s"," ","W","H","E","R","E"," ","c","o","u",
      "n","t","r","y"," ","="," ","'","D","r","o","p","b","o","x","'">>
      [] q = "q_empty" ->  \* (the empty string)
           <<>>
      [] q = "u_sel" ->  \* SELECT 'abc
           <<"S","E","L","E","C","T"," ","'","a","b","c">>
      [] q = "u_drop" ->  \* drop table 'x
           <<"d","r","o","p"," ","t","a","b","l","e"," ","'","x">>
      [] q = "u_upd" ->  \* SELECT updated_at FROM 'r
           <<"S","E","L","E","C","T"," ","u","p","d","a","t","e","d","_","a","t"," ","F","R",
      "O","M"," ","'","r">>

\* The characters of a string input (None has none: it is not a string).
TextOf(s) ==
    IF s.id = "fam"
    THEN kwSELECT \o Chars(s.c)
         \o (IF s.a = "" THEN <<>> ELSE kwAS \o Chars(s.a))
         \o kwFROM \o Chars(s.t)
         \o (IF s.w = "" THEN <<>> ELSE kwWHERE \o Chars(s.w) \o kwGT0)
    ELSE CatalogueText(s.id)

-----------------------------------------------------------------------------
(* Syntax trees, as sqlglot builds them.  A node has a kind (its class),   *)
(* a name (Column.name, Table.name), an alias (Expression.alias), its      *)
(* projection list (Select.expressions) and its other children.            *)

Node(kind, name, alias, exprs, kids) ==
    [kind |-> kind, name |-> name, alias |-> alias, exprs |-> exprs, kids |-> kids]

Column(name)        == Node("Column", name, "", <<>>, <<>>)
Table(name)         == Node("Table", name, "", <<>>, <<>>)
Alias(this, alias)  == Node("Alias", "", alias, <<>>, <<this>>)
Other(kind, kids)   == Node(kind, "", "", <<>>, kids)
Select(exprs, kids) == Node("Select", "", "", exprs, kids)
CTE(alias, this)    == Node("CTE", "", alias, <<>>, <<this>>)
\* the None that sqlglot.parse puts in its list for a statement without tokens
NoStatement         == Node("None", "", "", <<>>, <<>>)

From(t)   == Other("From", <<Table(t)>>)
Where(c)  == Other("Where", <<Other("GT", <<Column(c), Other("Literal", <<>>)>>)>>)
Avg(c)    == Other("Avg", <<Column(c)>>)

SelectCountry == Select(<<Column("country")>>, <<From("readings")>>)

\* sqlglot.parse raises (TokenError / ParseError; TypeError for None).  The
\* unparsable catalogue texts all have an unterminated string literal.
ParseRaises(s) == s.id \in {"None", "u_sel", "u_drop", "u_upd"}

\* sqlglot.parse(sql, dialect='sqlite') when it does not raise: one tree per statement.
Parse(s) ==
    CASE s.id = "fam" ->
           << Select(<< IF s.a = "" THEN Column(s.c) ELSE Alias(Column(s.c), s.a) >>,
                     <<From(s.t)>> \o (IF s.w = "" THEN <<>> ELSE <<Where(s.w)>>)) >>
      [] s.id = "q_ok"  -> << SelectCountry >>
      [] s.id = "q_agg" ->
           << Select(<<Column("country"), Alias(Avg("value"), "avg_value")>>,
                     <<From("readings"), Other("Group", <<Column("country")>>)>>) >>
      [] s.id = "q_bogus" -> << Select(<<Column("bogus_col")>>, <<From("readings")>>) >>
      [] s.id = "q_alias" ->
           << Select(<<Alias(Column("value"), "total")>>,
                     <<From("readings"), Where("total")>>) >>
      [] s.id = "q_aliasbog" ->
           << Select(<<Alias(Avg("bogus_col"), "x")>>, <<From("readings")>>) >>
      [] s.id = "q_ghost" -> << Select(<<Column("bogus_col")>>, <<From("ghost")>>) >>
      [] s.id = "q_cte" ->
           << Select(<<Column("y")>>,
                     << From("c"),
                        Other("With",
                          <<CTE("c", Select(<<Alias(Column("value"), "y")>>,
                                            <<From("readings")>>))>>) >>) >>
      [] s.id = "q_sub" ->
           << Select(<<Column("country")>>,
                     << Other("From",
                          <<Other("Subquery",
                              <<Select(<<Column("country"), Alias(Column("value"), "v")>>,
                                       <<From("readings")>>)>>)>>),
                        Where("v") >>) >>
      [] s.id = "q_union" ->
           << Other("Union", <<SelectCountry,
                               Select(<<Column("value")>>, <<From("readings")>>)>>) >>
      [] s.id \in {"q_drop", "q_dropl"} -> << Other("Drop", <<Table("readings")>>) >>
      [] s.id = "q_delete" -> << Other("Delete", <<Table("readings")>>) >>
      [] s.id = "q_insert" ->
           << Other("Insert", <<Table("readings"), Other("Values", <<>>)>>) >>
      [] s.id = "q_update" ->
           << Other("Update", <<Table("readings"),
                                Other("EQ", <<Column("value"), Other("Literal", <<>>)>>)>>) >>
      [] s.id = "q_create" ->
           << Other("Create", <<Table("scratch"), Other("ColumnDef", <<>>)>>) >>
      [] s.id = "q_alter" ->
           << Other("Alter", <<Table("readings"), Other("ColumnDef", <<>>)>>) >>
      [] s.id = "q_rename" ->
           << Other("Alter", <<Table("readings"), Other("Rename", <<Table("archive")>>)>>) >>
      [] s.id = "q_trunc" -> << Other("Truncate", <<Table("readings")>>) >>
      [] s.id = "q_ctedel" ->
           << Select(<<Column("country")>>,
                     << From("d"),
                        Other("With",
                          <<CTE("d", Other("Delete",
                                       <<Table("readings"),
                                         Other("Returning", <<Column("country")>>)>>))>>) >>) >>
      [] s.id = "q_multi" -> << SelectCountry, Other("Drop", <<Table("readings")>>) >>
      [] s.id = "q_multit" -> << SelectCountry, Other("Truncate", <<Table("readings")>>) >>
      [] s.id = "q_lit" ->
           << Select(<<Column("country")>>,
                     << From("readings"),
                        Other("Where", <<Other("EQ", <<Column("country"),
                                                       Other("Literal", <<>>)>>)>>) >>) >>
      [] s.id = "q_empty" -> << NoStatement >>

\* Expression.walk: the node and all its descendants, each with whether one of
\* its proper ancestors is an Alias (what find_ancestor(exp.Alias) answers).
RECURSIVE Walk(_, _)
Walk(n, underAlias) ==
    LET children == n.exprs \o n.kids
    IN  {[node |-> n, underAlias |-> underAlias]}
        \cup UNION { Walk(children[i], underAlias \/ n.kind = "Alias") :
                     i \in 1..Len(children) }

\* Expression.find_all(node_type)
find_all(ast, kind) == { o \in Walk(ast, FALSE) : o.node.kind = kind }

\* Expression.find(node_type), used for its truth value
find(ast, kind) == find_all(ast, kind) # {}

-----------------------------------------------------------------------------
(* Results.  A message is a format with the names or error text put into   *)
(* it; a check returns (ok, msg) or raises.                                *)

Msg(fmt, arg) == [fmt |-> fmt, arg |-> arg]
Ret(ok, msg)  == [raised |-> FALSE, ok |-> ok, msg |-> msg]
Raises(what)  == [raised |-> TRUE, ok |-> FALSE, msg |-> Msg(what, {})]

-----------------------------------------------------------------------------
(* SQLValidator.safety_check                                               *)

\* ddl_nodes + dml_nodes, in the order the loop tries them
NodeTypes == <<"Drop", "Create", "Alter", "Truncate", "Rename", "Delete", "Insert", "Update">>

\* The except branch: the keyword check on the upper-cased text.  None has no
\* upper(): the AttributeError is raised inside the handler and leaves safety_check.
lexical_fallback(s) ==
    IF s = None
    THEN Raises("AttributeError")
    ELSE IF \E k \in harmful_keywords : Contains(Upper(TextOf(s)), k)
         THEN Ret(FALSE, Msg("Unsafe: Harmful keyword detected", {}))
         ELSE Ret(TRUE, Msg("Safe - Keyword check passed", {}))

\* The try branch after a parse that gave a tree: the full-tree search for
\* DDL/DML nodes, then the test of the root.
structural_check(ast) ==
    LET hits == { i \in 1..Len(NodeTypes) : find(ast, NodeTypes[i]) }
    IN  IF hits # {}
        THEN Ret(FALSE, Msg("Unsafe: %s operation detected",
                            {NodeTypes[CHOOSE i \in hits : \A j \in hits : i <= j]}))
        ELSE IF ast.kind # "Select"
             THEN Ret(FALSE, Msg("Unsafe: Non-SELECT statement", {}))
             ELSE Ret(TRUE, Msg("Safe - SELECT only", {}))

\* Mutant of safety_check: the structural check looks at every statement of
\* the parse, not only at parsed[0].
safety_check_AllStatements(s, hasTypes) ==
    IF ParseRaises(s)
    THEN lexical_fallback(s)
    ELSE LET parsed == Parse(s)
             bad == { k \in 1..Len(parsed) : ~structural_check(parsed[k]).ok }
         IN  IF parsed = <<>>
             THEN Ret(FALSE, Msg("Unsafe: Parse failed - empty result", {}))
             ELSE IF ~hasTypes \/ parsed[1] = NoStatement
                  THEN lexical_fallback(s)
                  ELSE IF bad # {}
                       THEN structural_check(parsed[CHOOSE k \in bad : TRUE])
                       ELSE structural_check(parsed[1])

\* safety_check(sql).  Everything from the parse to the return is inside the
\* try: a parse error, the attribute lookup of a node type that sqlglot.exp
\* does not define (hasTypes = FALSE), and parsed[0] being None all end in
\* the except branch.  Which names sqlglot.exp defines depends on the
\* installed sqlglot (the repository pins no version; exp.Alter, exp.Truncate
\* and exp.Rename are not classes of every release), so both outcomes of the
\* lookup are kept.
safety_check(s, hasTypes) ==
    IF ParseRaises(s)
    THEN lexical_fallback(s)
    ELSE LET parsed == Parse(s)
         IN  IF parsed = <<>>
             THEN Ret(FALSE, Msg("Unsafe: Parse failed - empty result", {}))
             ELSE IF ~hasTypes \/ parsed[1] = NoStatement
                  THEN lexical_fallback(s)
                  ELSE structural_check(parsed[1])

-----------------------------------------------------------------------------
(* SQLValidator.semantic_check                                             *)

collect_aliases_from_select(select_node) ==
    IF select_node.kind = "Select"
    THEN { select_node.exprs[i].alias : i \in 1..Len(select_node.exprs) } \ {""}
    ELSE {}

\* the CTE nodes that have an alias
NamedCTEs(ast) == { o.node : o \in { p \in find_all(ast, "CTE") : p.node.alias # "" } }

cte_names(ast) == { cte.alias : cte \in NamedCTEs(ast) }

cte_columns(ast) ==
    UNION { collect_aliases_from_select(cte.kids[1]) : cte \in NamedCTEs(ast) }

all_select_aliases(ast) ==
    UNION { collect_aliases_from_select(o.node) : o \in find_all(ast, "Select") }

\* Mutant of IsRealColumn: the test against the alias names (line 88) is left out.
IsRealColumn_NoNameFilter(o, ast) ==
    /\ o.node.alias = ""
    /\ ~o.underAlias

\* Mutant of IsRealColumn: the find_ancestor test (line 96) is left out.
IsRealColumn_NoAncestorTest(o, ast) ==
    /\ o.node.name \notin all_select_aliases(ast)
    /\ o.node.name \notin cte_columns(ast)
    /\ o.node.alias = ""

\* Is this column occurrence kept as a real column (lines 85-99)?
IsRealColumn(o, ast) ==
    /\ o.node.name \notin all_select_aliases(ast)
    /\ o.node.name \notin cte_columns(ast)
    /\ o.node.alias = ""
    /\ ~o.underAlias

real_columns(ast) ==
    { o.node.name : o \in { p \in find_all(ast, "Column") : IsRealColumn(p, ast) } }

\* Mutant of used_tables: the CTE names are not taken out.
used_tables_WithCTEs(ast) == { o.node.name : o \in find_all(ast, "Table") }

used_tables(ast) == { o.node.name : o \in find_all(ast, "Table") } \ cte_names(ast)

missing_tables(ast, tables)   == used_tables(ast) \ tables
missing_columns(ast, columns) == real_columns(ast) \ columns

\* Mutant of schema_verdict: the missing columns are not looked at.
schema_verdict_TablesOnly(mt, mc) ==
    IF mt # {} THEN Ret(FALSE, Msg("Missing tables: %s", mt))
    ELSE Ret(TRUE, Msg("Schema valid", {}))

\* The verdict of lines 108-112 from the two difference sets.
schema_verdict(mt, mc) ==
    IF mt # {} THEN Ret(FALSE, Msg("Missing tables: %s", mt))
    ELSE IF mc # {} THEN Ret(FALSE, Msg("Missing columns: %s", mc))
    ELSE Ret(TRUE, Msg("Schema valid", {}))

\* Mutant of semantic_error: the except branch lets the statement through.
semantic_error_FailOpen(e) == Ret(TRUE, Msg("Semantic error: %s", {e}))

\* What the except branch of semantic_check returns.
semantic_error(e) == Ret(FALSE, Msg("Semantic error: %s", {e}))

semantic_check(s, tables, columns) ==
    IF ParseRaises(s)
    THEN semantic_error("parse error")
    ELSE LET parsed == Parse(s)
         IN  IF parsed = <<>>
             THEN Ret(FALSE, Msg("Semantic: Parse failed", {}))
             ELSE IF parsed[1] = NoStatement
                  THEN semantic_error("'NoneType' object has no attribute 'find_all'")
                  ELSE schema_verdict(missing_tables(parsed[1], tables),
                                      missing_columns(parsed[1], columns))

-----------------------------------------------------------------------------
(* The store (SQLite) and SQLValidator.execution_check                     *)

\* db/soil_pollution.db as the examples of the specification have it.
InitStore == [t \in {"readings"} |-> [cols |-> {"country", "value"}, rows |-> <<1>>]]

Without(st, t) == [u \in (DOMAIN st) \ {t} |-> st[u]]
With(st, t, v) == [u \in (DOMAIN st) \cup {t} |-> IF u = t THEN v ELSE st[u]]

Done(st)   == [ok |-> TRUE, err |-> "", store |-> st]
Fails(err) == [ok |-> FALSE, err |-> err, store |-> <<>>]

\* The names of the Column nodes in and beneath the nodes of a sequence.
ColumnNames(nodes) ==
    UNION { { o.node.name : o \in find_all(nodes[i], "Column") } : i \in 1..Len(nodes) }

\* The column names a SELECT gives to its result: the alias of a projection,
\* or the name of a projection that is a bare column.
OutputNames(sel) ==
    IF sel.kind # "Select" THEN {}
    ELSE { IF sel.exprs[i].alias # "" THEN sel.exprs[i].alias ELSE sel.exprs[i].name :
           i \in 1..Len(sel.exprs) } \ {""}

\* The children of a SELECT's FROM clause, and its other clauses (WHERE,
\* GROUP BY) -- the WITH clause holds statements of their own.
FromItems(sel) ==
    UNION { { sel.kids[i].kids[j] : j \in 1..Len(sel.kids[i].kids) } :
            i \in { k \in 1..Len(sel.kids) : sel.kids[k].kind = "From" } }

OtherClauses(sel) ==
    SelectSeq(sel.kids, LAMBDA k : k.kind \notin {"From", "With"})

\* The column names SQLite resolves in the scope of one SELECT: the columns
\* of the tables of its FROM clause, and the result columns of the CTEs and
\* subqueries it reads from.
SourceColumns(sel, ast, st) ==
    LET items == FromItems(sel)
        names == { n.name : n \in { m \in items : m.kind = "Table" } }
    IN  UNION { st[t].cols : t \in (names \ cte_names(ast)) \cap DOMAIN st }
        \cup UNION { OutputNames(cte.kids[1]) :
                     cte \in { c \in NamedCTEs(ast) : c.alias \in names } }
        \cup UNION { OutputNames(n.kids[1]) : n \in { m \in items : m.kind = "Subquery" } }

\* SQLite resolves the names of the select list against the sources only; a
\* name in WHERE or GROUP BY may also be an alias of the select list.
SelectResolves(sel, ast, st) ==
    /\ ColumnNames(sel.exprs) \subseteq SourceColumns(sel, ast, st)
    /\ ColumnNames(OtherClauses(sel)) \subseteq
           (SourceColumns(sel, ast, st) \cup collect_aliases_from_select(sel))

\* A query (SELECT, UNION) runs if its tables exist and the column names of
\* each of its SELECTs resolve.
RunQuery(ast, st) ==
    IF ~(used_tables(ast) \subseteq DOMAIN st) THEN Fails("no such table")
    ELSE IF \E o \in find_all(ast, "Select") : ~SelectResolves(o.node, ast, st)
         THEN Fails("no such column")
         ELSE Done(st)

\* A DDL/DML statement on its target table (the first child of the root).
RunMutation(ast, st) ==
    LET t == ast.kids[1].name
        exists == t \in DOMAIN st
    IN  CASE ast.kind = "Create" ->
               IF exists THEN Fails("table already exists")
               ELSE Done(With(st, t, [cols |-> {"note"}, rows |-> <<>>]))
          [] ast.kind = "Truncate" -> Fails("syntax error")
          [] ~exists -> Fails("no such table")
          [] ast.kind = "Drop" -> Done(Without(st, t))
          [] ast.kind = "Delete" -> Done(With(st, t, [st[t] EXCEPT !.rows = <<>>]))
          [] ast.kind = "Insert" ->
               \* VALUES ('x', 1): two values, for a table of two columns
               IF Cardinality(st[t].cols) = 2
               THEN Done(With(st, t, [st[t] EXCEPT !.rows = Append(@, 1)]))
               ELSE Fails("table has another number of columns than values were supplied")
          [] ast.kind = "Update" ->
               Done(With(st, t, [st[t] EXCEPT !.rows = [i \in 1..Len(@) |-> 0]]))
          [] ast.kind = "Alter" /\ find(ast, "Rename") ->
               IF ast.kids[2].kids[1].name \in DOMAIN st
               THEN Fails("table already exists")
               ELSE Done(With(Without(st, t), ast.kids[2].kids[1].name, st[t]))
          [] ast.kind = "Alter" ->
               IF "note" \in st[t].cols THEN Fails("duplicate column name")
               ELSE Done(With(st, t, [st[t] EXCEPT !.cols = @ \cup {"note"}]))

\* One statement on the connection's view of the store.
RunStatement(ast, st) ==
    IF ast.kind \in {"Select", "Union"}
    THEN IF \E i \in 1..Len(NodeTypes) : find(ast, NodeTypes[i])
         THEN Fails("syntax error")
         ELSE RunQuery(ast, st)
    ELSE RunMutation(ast, st)

\* conn.execute(text(sql)) inside the transaction: the result on the
\* connection's view of the store, or the error SQLite raises.  sqlite3
\* compiles the first statement, which can fail, before it refuses a text
\* that holds a second statement; it runs nothing of such a text.
Execute(s, st) ==
    IF ParseRaises(s) THEN Fails("unrecognized token")
    ELSE LET parsed == Parse(s)
         IN  IF parsed = <<>> \/ parsed[1] = NoStatement THEN Done(st)
             ELSE IF Len(parsed) > 1
                  THEN IF RunStatement(parsed[1], st).ok
                       THEN Fails("You can only execute one statement at a time")
                       ELSE RunStatement(parsed[1], st)
                  ELSE RunStatement(parsed[1], st)

\* Leaving `with self.engine.begin() as conn:` -- the context manager commits
\* the transaction when the block ends normally and rolls it back when the
\* block raises.
engine_begin_exit(before, r) == IF r.ok THEN r.store ELSE before

\* Mutant of execution_check: the error text of the store is not passed on.
execution_check_GenericError(s, st) ==
    LET r == Execute(s, st)
    IN  [res   |-> IF r.ok THEN Ret(TRUE, Msg("Executed successfully", {}))
                   ELSE Ret(FALSE, Msg("Runtime error: %s", {"query failed"})),
         store |-> engine_begin_exit(st, r)]

\* execution_check(sql): the result it returns and the store it leaves.
execution_check(s, st) ==
    LET r == Execute(s, st)
    IN  [res   |-> IF r.ok THEN Ret(TRUE, Msg("Executed successfully", {}))
                   ELSE Ret(FALSE, Msg("Runtime error: %s", {r.err})),
         store |-> engine_begin_exit(st, r)]

-----------------------------------------------------------------------------
(* SQLValidator.__init__ / _reflect_schema and SQLValidator.validate       *)

reflect_tables(st)  == DOMAIN st
reflect_columns(st) == UNION { st[t].cols : t \in DOMAIN st }

NoVerdict == [kind |-> "none", ok |-> FALSE, stage |-> "", msg |-> Msg("", {})]

\* Mutant of first_failure: the loop keeps going and reports the last failure.
first_failure_Last(cs) ==
    LET bad == { i \in 1..Len(cs) : ~cs[i].res.ok }
    IN  IF bad # {}
        THEN LET i == CHOOSE k \in bad : \A j \in bad : k >= j
             IN  [kind |-> "returned", ok |-> FALSE, stage |-> cs[i].stage,
                  msg |-> cs[i].res.msg]
        ELSE [kind |-> "returned", ok |-> TRUE, stage |-> "",
              msg |-> Msg("All validations passed", {})]

\* Lines 131-134: the first failing stage of the evaluated list, or success.
first_failure(cs) ==
    LET bad == { i \in 1..Len(cs) : ~cs[i].res.ok }
    IN  IF bad # {}
        THEN LET i == CHOOSE k \in bad : \A j \in bad : k <= j
             IN  [kind |-> "returned", ok |-> FALSE, stage |-> cs[i].stage,
                  msg |-> cs[i].res.msg]
        ELSE [kind |-> "returned", ok |-> TRUE, stage |-> "",
              msg |-> Msg("All validations passed", {})]

NoRead == [tables |-> {}, columns |-> {}]

\* The database selected in a new session (main, line 33), and the second
\* file of the db directory with what it holds.
DefaultDb == "soil_pollution.db"
OtherDb   == "other.db"
NoImport == [db |-> "", table |-> "", fit |-> FALSE]
InitOtherStore == [t \in {"scratch"} |-> [cols |-> {"note"}, rows |-> <<>>]]

Init ==
    /\ store = InitStore
    /\ expHasNodeTypes \in BOOLEAN
    /\ schema_tables = {}
    /\ schema_columns = {}
    /\ pc = "none"
    /\ sql = None
    /\ checks = <<>>
    /\ verdict = NoVerdict
    /\ storeAtCall = InitStore
    /\ storeAtExec = InitStore
    /\ ncalls = 0
    /\ construction = "none"
    /\ sameInstance = FALSE
    /\ prevVerdict = NoVerdict
    /\ mpc = "idle"
    /\ sql_query = None
    /\ executed = <<>>
    /\ memory = <<>>
    /\ query_history = <<>>
    /\ rpc = "idle"
    /\ rmeta = InitStore
    /\ semRead = NoRead
    /\ reflections = {}
    /\ nreflects = 0
    /\ selected_db = DefaultDb
    /\ otherStore = InitOtherStore
    /\ memory_file = DefaultDb
    /\ otherMemory = <<>>
    /\ npage = 0
    /\ importing = NoImport

\* main, line 218: SQLValidator(db_path=...) reflects the store as it is now.
Construct ==
    /\ pc \in {"none", "ready"}
    /\ schema_tables' = reflect_tables(store)
    /\ schema_columns' = reflect_columns(store)
    /\ pc' = "ready"
    /\ construction' = "ok"
    /\ sameInstance' = FALSE
    /\ reflections' = {store}
    /\ rpc' = "idle"
    /\ UNCHANGED <<store, expHasNodeTypes, sql, checks, verdict, storeAtCall,
                   storeAtExec, ncalls, prevVerdict, mainVars,
                   rmeta, semRead, nreflects,
                   pageVars>>

\* Mutant of ConstructFails: the error of the reflection is swallowed and the
\* instance is handed out with the placeholder catalogue of lines 9-10.
ConstructFails_Swallowed ==
    /\ pc \in {"none", "ready"}
    /\ construction' = "failed"
    /\ schema_tables' = {}
    /\ schema_columns' = {}
    /\ pc' = "ready"
    /\ sameInstance' = FALSE
    /\ UNCHANGED <<store, expHasNodeTypes, sql, checks, verdict, storeAtCall,
                   storeAtExec, ncalls, prevVerdict, mainVars, reflVars,
                   pageVars>>

\* SQLValidator(db_path=...) when the store cannot be opened or introspected:
\* metadata.reflect raises in _reflect_schema (line 15), nothing in __init__
\* catches it, the exception leaves the constructor and no instance is bound.
\* The half-built object with its placeholder catalogue is unreachable.
ConstructFails ==
    /\ pc \in {"none", "ready"}
    /\ construction' = "failed"
    /\ pc' = "none"
    /\ sameInstance' = FALSE
    /\ UNCHANGED <<store, expHasNodeTypes, schema_tables, schema_columns, sql, checks,
                   verdict, storeAtCall, storeAtExec, ncalls, prevVerdict, mainVars,
                   reflVars,
                   pageVars>>

\* What validate's entry does to the state of the call (line 124); `same`
\* tells whether the call before was made on this instance.
Enter(s, same) ==
    /\ ncalls < MaxCalls
    /\ sql' = s
    /\ checks' = <<>>
    /\ verdict' = NoVerdict
    /\ storeAtCall' = store
    /\ ncalls' = ncalls + 1
    /\ pc' = "safety"
    /\ prevVerdict' = IF same /\ s = sql /\ verdict.kind = "returned"
                      THEN verdict ELSE NoVerdict
    /\ sameInstance' = TRUE

\* main, line 219: validator.validate(sql_query) is entered.
Call(s) ==
    /\ pc = "ready"
    /\ Enter(s, sameInstance)
    /\ UNCHANGED <<store, expHasNodeTypes, schema_tables, schema_columns, storeAtExec,
                   construction, mainVars, reflVars,
                   pageVars>>

\* Line 126: the first element of the list is evaluated.  An exception that
\* leaves safety_check leaves validate.
SafetyStep ==
    /\ pc = "safety"
    /\ LET r == safety_check(sql, expHasNodeTypes)
       IN  IF r.raised
           THEN /\ verdict' = [kind |-> "raised", ok |-> FALSE, stage |-> "", msg |-> r.msg]
                /\ pc' = "ready"
                /\ UNCHANGED checks
           ELSE /\ checks' = Append(checks, [stage |-> "Safety", res |-> r])
                /\ pc' = "semantic"
                /\ UNCHANGED verdict
    /\ UNCHANGED <<store, expHasNodeTypes, schema_tables, schema_columns, sql,
                   storeAtCall, storeAtExec, ncalls, construction, idemVars, mainVars,
                   reflVars,
                   pageVars>>

\* Line 127: the second element of the list is evaluated.
SemanticStep ==
    /\ pc = "semantic"
    /\ checks' = Append(checks, [stage |-> "Semantic",
                                 res |-> semantic_check(sql, schema_tables, schema_columns)])
    /\ pc' = "execution"
    /\ UNCHANGED <<store, expHasNodeTypes, schema_tables, schema_columns, sql, verdict,
                   storeAtCall, storeAtExec, ncalls, construction, idemVars, mainVars,
                   reflVars,
                   pageVars>>

\* Mutant of ExecutionStep: the catalogue is re-reflected after the probe.
ExecutionStep_Reflects ==
    /\ pc = "execution"
    /\ LET x == execution_check(sql, store)
       IN  /\ checks' = Append(checks, [stage |-> "Execution", res |-> x.res])
           /\ store' = x.store
           /\ schema_tables' = reflect_tables(x.store)
           /\ schema_columns' = reflect_columns(x.store)
    /\ storeAtExec' = store
    /\ pc' = "loop"
    /\ UNCHANGED <<expHasNodeTypes, sql, verdict, storeAtCall, ncalls, construction,
                   idemVars, mainVars, reflVars,
                   pageVars>>

\* Line 128: the third element of the list is evaluated.
ExecutionStep ==
    /\ pc = "execution"
    /\ LET x == execution_check(sql, store)
       IN  /\ checks' = Append(checks, [stage |-> "Execution", res |-> x.res])
           /\ store' = x.store
    /\ storeAtExec' = store
    /\ pc' = "loop"
    /\ UNCHANGED <<expHasNodeTypes, schema_tables, schema_columns, sql, verdict,
                   storeAtCall, ncalls, construction, idemVars, mainVars, reflVars,
                   pageVars>>

\* Lines 131-134: the loop over the list and the return.
ReturnStep ==
    /\ pc = "loop"
    /\ verdict' = first_failure(checks)
    /\ pc' = "ready"
    /\ UNCHANGED <<store, expHasNodeTypes, schema_tables, schema_columns, sql, checks,
                   storeAtCall, storeAtExec, ncalls, construction, idemVars, mainVars,
                   reflVars,
                   pageVars>>

\* The validator used directly: constructed, called any number of times.
Next ==
    \/ Construct
    \/ ConstructFails
    \/ \E s \in Inputs : Call(s)
    \/ SafetyStep
    \/ SemanticStep
    \/ ExecutionStep
    \/ ReturnStep

Spec == Init /\ [][Next]_vars

-----------------------------------------------------------------------------
(* The query flow of main (src/main.py, lines 206-278)                      *)

IsDDL(s) ==
    /\ ~ParseRaises(s)
    /\ Len(Parse(s)) = 1
    /\ Parse(s)[1].kind \in {"Create", "Drop", "Alter"}

\* DatabaseManager.execute_query(sql_query): sqlite3 runs the text on a
\* connection of its own and closes it without commit, which discards what a
\* DML statement wrote and keeps DDL (run outside a transaction).  An
\* sqlite3 error is caught and None returned.
execute_query(s, st) ==
    LET r == Execute(s, st)
    IN  [isNone |-> ~r.ok,
         store  |-> IF r.ok /\ IsDDL(s) THEN r.store ELSE st]

\* A new browser session: initialize_session_state (lines 18-33) builds a
\* MemoryManager, which loads the memory file of the default database, a
\* DatabaseManager on the default database and an empty query_history.
MainNewSession ==
    /\ mpc = "idle"
    /\ npage < MaxPageOps
    /\ npage' = npage + 1
    /\ query_history' = <<>>
    /\ selected_db' = DefaultDb
    /\ store' = IF selected_db = DefaultDb THEN store ELSE otherStore
    /\ otherStore' = IF selected_db = DefaultDb THEN otherStore ELSE store
    /\ memory_file' = DefaultDb
    /\ memory' = IF memory_file = DefaultDb THEN memory ELSE otherMemory
    /\ otherMemory' = IF memory_file = DefaultDb THEN otherMemory ELSE memory
    /\ UNCHANGED <<expHasNodeTypes, schema_tables, schema_columns, pc, sql, checks,
                   verdict, storeAtCall, storeAtExec, ncalls, construction, idemVars,
                   mpc, sql_query, executed, reflVars, importing>>

\* Lines 66-75 of a run of main: db_manager already names the selected file
\* (lines 69-70 find nothing to switch), and memory_manager switches to the
\* memory file of the selected database when it holds another one.
MainPageStart ==
    /\ mpc = "idle"
    /\ ncalls < MaxCalls \/ npage < MaxPageOps
    /\ memory_file' = selected_db
    /\ memory' = IF memory_file = selected_db THEN memory ELSE otherMemory
    /\ otherMemory' = IF memory_file = selected_db THEN otherMemory ELSE memory
    /\ mpc' = "init"
    /\ UNCHANGED <<store, expHasNodeTypes, schema_tables, schema_columns, pc, sql,
                   checks, verdict, storeAtCall, storeAtExec, ncalls, construction,
                   idemVars, sql_query, executed, query_history, reflVars,
                   selected_db, otherStore, npage, importing>>

\* Line 78: st.session_state.assistant.set_database(...).  The assistant is
\* a GeminiAssistant (line 25), and the class of src/gemini_class.py defines
\* no set_database: the call raises AttributeError, which leaves main.  The
\* run ends here, before the sidebar and before the query flow.
MainSetDatabase ==
    /\ mpc = "init"
    /\ mpc' = "idle"
    /\ UNCHANGED <<store, expHasNodeTypes, schema_tables, schema_columns, pc, sql,
                   checks, verdict, storeAtCall, storeAtExec, ncalls, construction,
                   idemVars, sql_query, executed, memory, query_history, reflVars,
                   pageVars>>

\* Lines 97-100: the Clear Memory button -- MemoryManager.clear, st.rerun.
MainClearMemory ==
    /\ mpc = "page"
    /\ npage < MaxPageOps
    /\ npage' = npage + 1
    /\ memory' = <<>>
    /\ mpc' = "idle"
    /\ UNCHANGED <<store, expHasNodeTypes, schema_tables, schema_columns, pc, sql,
                   checks, verdict, storeAtCall, storeAtExec, ncalls, construction,
                   idemVars, sql_query, executed, query_history, reflVars,
                   selected_db, otherStore, memory_file, otherMemory, importing>>

\* The header row of the imported CSV file (one data row follows it).
CsvHeaders == {"country", "value"}

\* create_db.py, line 33: CREATE TABLE IF NOT EXISTS with the headers as
\* columns; sqlite3 runs DDL outside a transaction, so the table is there
\* from this statement on.
create_table_if_not_exists(st, table) ==
    IF table \in DOMAIN st THEN st
    ELSE With(st, table, [cols |-> CsvHeaders, rows |-> <<>>])

\* create_db.py, lines 35-44: one INSERT per data row, then the commit.  An
\* INSERT raises when the row has another number of values than the table
\* has columns; the rows inserted before it are never committed.
insert_rows(st, table, fit) ==
    IF fit /\ Cardinality(st[table].cols) = Cardinality(CsvHeaders)
    THEN [raised |-> FALSE,
          store |-> With(st, table, [st[table] EXCEPT !.rows = Append(@, 1)])]
    ELSE [raised |-> TRUE, store |-> st]

\* Lines 144-146 and create_db.py lines 19-33: the Create Database button --
\* CustomDatabase.create_database calls create_db_from_csv, which opens the
\* named database file and creates the table.  `fit` tells whether the data
\* row of the CSV file has as many values as the header row.
MainCreateDatabase(db, table, fit) ==
    /\ mpc = "page"
    /\ npage < MaxPageOps
    /\ npage' = npage + 1
    /\ importing' = [db |-> db, table |-> table, fit |-> fit]
    /\ IF db = selected_db
       THEN /\ store' = create_table_if_not_exists(store, table)
            /\ UNCHANGED otherStore
       ELSE /\ otherStore' = create_table_if_not_exists(otherStore, table)
            /\ UNCHANGED store
    /\ mpc' = "import"
    /\ UNCHANGED <<expHasNodeTypes, schema_tables, schema_columns, pc, sql, checks,
                   verdict, storeAtCall, storeAtExec, ncalls, construction, idemVars,
                   sql_query, executed, memory, query_history, reflVars,
                   selected_db, memory_file, otherMemory>>

\* create_db.py lines 35-53: the rows are inserted and committed, or an
\* INSERT raises and the exception leaves main; no flow runs in this run.
MainImportRows ==
    /\ mpc = "import"
    /\ IF importing.db = selected_db
       THEN /\ store' = insert_rows(store, importing.table, importing.fit).store
            /\ UNCHANGED otherStore
       ELSE /\ otherStore' = insert_rows(otherStore, importing.table, importing.fit).store
            /\ UNCHANGED store
    /\ importing' = NoImport
    /\ mpc' = "idle"
    /\ UNCHANGED <<expHasNodeTypes, schema_tables, schema_columns, pc, sql, checks,
                   verdict, storeAtCall, storeAtExec, ncalls, construction, idemVars,
                   sql_query, executed, memory, query_history, reflVars,
                   selected_db, memory_file, otherMemory, npage>>

\* Lines 174-177: the database selector names the other file --
\* selected_db is set, DatabaseManager.switch_database, st.rerun.
MainSelectDatabase ==
    /\ mpc = "page"
    /\ npage < MaxPageOps
    /\ npage' = npage + 1
    /\ selected_db' = IF selected_db = DefaultDb THEN OtherDb ELSE DefaultDb
    /\ store' = otherStore
    /\ otherStore' = store
    /\ mpc' = "idle"
    /\ UNCHANGED <<expHasNodeTypes, schema_tables, schema_columns, pc, sql, checks,
                   verdict, storeAtCall, storeAtExec, ncalls, construction, idemVars,
                   sql_query, executed, memory, query_history, reflVars,
                   memory_file, otherMemory, importing>>

\* Lines 215-219: generate_sql returns a string (or None), a new validator is
\* constructed for the store as it is now, and validate is entered.
MainStart(s) ==
    /\ mpc = "page"
    /\ pc = "none"
    /\ sql_query' = s
    /\ schema_tables' = reflect_tables(store)
    /\ schema_columns' = reflect_columns(store)
    /\ construction' = "ok"
    /\ reflections' = {store}
    /\ Enter(s, FALSE)
    /\ mpc' = "validate"
    /\ UNCHANGED <<store, expHasNodeTypes, storeAtExec, executed, memory,
                   query_history, rpc, rmeta, semRead, nreflects,
                   pageVars>>

\* Line 218 when the store cannot be opened: the exception leaves main's run.
MainConstructFails ==
    /\ mpc = "page"
    /\ pc = "none"
    /\ construction' = "failed"
    /\ sameInstance' = FALSE
    /\ mpc' = "idle"
    /\ UNCHANGED <<store, expHasNodeTypes, schema_tables, schema_columns, pc, sql,
                   checks, verdict, storeAtCall, storeAtExec, ncalls, prevVerdict,
                   sql_query, executed, memory, query_history, reflVars,
                   pageVars>>

\* Line 219 when validate raises: the exception leaves main's run.
MainRaised ==
    /\ mpc = "validate"
    /\ pc = "ready"
    /\ verdict.kind = "raised"
    /\ mpc' = "idle"
    /\ pc' = "none"
    /\ UNCHANGED <<store, expHasNodeTypes, schema_tables, schema_columns, sql, checks,
                   verdict, storeAtCall, storeAtExec, ncalls, construction, idemVars,
                   sql_query, executed, memory, query_history, reflVars,
                   pageVars>>

\* Lines 221-227: `if not is_safe:` shows the error and returns.
MainBlocked ==
    /\ mpc = "validate"
    /\ pc = "ready"
    /\ verdict.kind = "returned"
    /\ ~verdict.ok
    /\ mpc' = "idle"
    /\ pc' = "none"
    /\ UNCHANGED <<store, expHasNodeTypes, schema_tables, schema_columns, sql, checks,
                   verdict, storeAtCall, storeAtExec, ncalls, construction, idemVars,
                   sql_query, executed, memory, query_history, reflVars,
                   pageVars>>

\* Lines 229-243: `if not sql_query:` returns; else execute_query runs the
\* text, and a None result returns.
MainExecute ==
    /\ mpc = "validate"
    /\ pc = "ready"
    /\ verdict.kind = "returned"
    /\ verdict.ok
    /\ IF sql_query = None \/ TextOf(sql_query) = <<>>
       THEN /\ mpc' = "idle"
            /\ pc' = "none"
            /\ UNCHANGED <<store, executed>>
       ELSE LET x == execute_query(sql_query, store)
            IN  /\ executed' = Append(executed, sql_query)
                /\ store' = x.store
                /\ mpc' = IF x.isNone THEN "idle" ELSE "summary"
                /\ pc' = IF x.isNone THEN "none" ELSE pc
    /\ UNCHANGED <<expHasNodeTypes, schema_tables, schema_columns, sql, checks,
                   verdict, storeAtCall, storeAtExec, ncalls, construction, idemVars,
                   sql_query, memory, query_history, reflVars,
                   pageVars>>

\* Lines 245-270: the summary is made (generate_summary returns a text also
\* when the model call fails) and the result is shown.
MainSummary ==
    /\ mpc = "summary"
    /\ mpc' = "memory"
    /\ UNCHANGED <<store, expHasNodeTypes, schema_tables, schema_columns, pc, sql,
                   checks, verdict, storeAtCall, storeAtExec, ncalls, construction,
                   idemVars, sql_query, executed, memory, query_history, reflVars,
                   pageVars>>

\* Line 272: memory_manager.add appends the interaction and saves.
MainAddMemory ==
    /\ mpc = "memory"
    /\ memory' = Append(memory, sql_query)
    /\ mpc' = "history"
    /\ UNCHANGED <<store, expHasNodeTypes, schema_tables, schema_columns, pc, sql,
                   checks, verdict, storeAtCall, storeAtExec, ncalls, construction,
                   idemVars, sql_query, executed, query_history, reflVars,
                   pageVars>>

\* Lines 273-277: query_history.append, and the run of main ends.
MainAppendHistory ==
    /\ mpc = "history"
    /\ query_history' = Append(query_history, sql_query)
    /\ mpc' = "idle"
    /\ pc' = "none"
    /\ UNCHANGED <<store, expHasNodeTypes, schema_tables, schema_columns, sql, checks,
                   verdict, storeAtCall, storeAtExec, ncalls, construction, idemVars,
                   sql_query, executed, memory, reflVars,
                   pageVars>>

\* What generate_sql returns in the runs of main.
MainInputs == { Named("q_ok"), Named("q_agg"), Named("q_bogus"), Named("q_drop"),
                Named("q_create"), Named("q_empty"), None }

NextMain ==
    \/ MainNewSession
    \/ MainPageStart
    \/ MainSetDatabase
    \/ MainClearMemory
    \/ \E db \in {DefaultDb, OtherDb}, table \in {"readings", "scratch", "extra"},
          fit \in BOOLEAN :
           MainCreateDatabase(db, table, fit)
    \/ MainImportRows
    \/ MainSelectDatabase
    \/ \E s \in MainInputs : MainStart(s)
    \/ MainConstructFails
    \/ SafetyStep
    \/ SemanticStep
    \/ ExecutionStep
    \/ ReturnStep
    \/ MainRaised
    \/ MainBlocked
    \/ MainExecute
    \/ MainSummary
    \/ MainAddMemory
    \/ MainAppendHistory

SpecMain == Init /\ [][NextMain]_vars

-----------------------------------------------------------------------------
(* _reflect_schema called on a live instance while validate runs            *)
(* (src/sql_validation.py, lines 13-18 against lines 105-106)               *)

\* The inputs of the calls that run beside a reflection.
ReflectInputs == { Named("q_ok"), Named("q_bogus"), Named("q_ghost"),
                   Named("q_create"), Named("q_drop") }

\* Lines 14-15: metadata.reflect reads the store into the local metadata.
ReflectBegin ==
    /\ rpc = "idle"
    /\ pc # "none"
    /\ nreflects < MaxReflects
    /\ rmeta' = store
    /\ rpc' = "tables"
    /\ nreflects' = nreflects + 1
    /\ UNCHANGED <<store, expHasNodeTypes, schema_tables, schema_columns, pc, sql,
                   checks, verdict, storeAtCall, storeAtExec, ncalls, construction,
                   idemVars, mainVars, semRead, reflections,
                   pageVars>>

\* Line 16: self.schema_tables is bound to the new set of table names.
ReflectTables ==
    /\ rpc = "tables"
    /\ schema_tables' = reflect_tables(rmeta)
    /\ rpc' = "columns"
    /\ UNCHANGED <<store, expHasNodeTypes, schema_columns, pc, sql, checks, verdict,
                   storeAtCall, storeAtExec, ncalls, construction, idemVars, mainVars,
                   rmeta, semRead, reflections, nreflects,
                   pageVars>>

\* Lines 17-18: self.schema_columns is bound to the new set of column names.
ReflectColumns ==
    /\ rpc = "columns"
    /\ schema_columns' = reflect_columns(rmeta)
    /\ rpc' = "idle"
    /\ reflections' = reflections \cup {rmeta}
    /\ UNCHANGED <<store, expHasNodeTypes, schema_tables, pc, sql, checks, verdict,
                   storeAtCall, storeAtExec, ncalls, construction, idemVars, mainVars,
                   rmeta, semRead, nreflects,
                   pageVars>>

\* semantic_check up to line 105: self.schema_tables is read.
SemReadTables ==
    /\ pc = "semantic"
    /\ semRead' = [tables |-> schema_tables, columns |-> {}]
    /\ pc' = "semantic_columns"
    /\ UNCHANGED <<store, expHasNodeTypes, schema_tables, schema_columns, sql, checks,
                   verdict, storeAtCall, storeAtExec, ncalls, construction, idemVars,
                   mainVars, rpc, rmeta, reflections, nreflects,
                   pageVars>>

\* semantic_check from line 106: self.schema_columns is read and the check
\* returns its result.
SemReadColumns ==
    /\ pc = "semantic_columns"
    /\ semRead' = [semRead EXCEPT !.columns = schema_columns]
    /\ checks' = Append(checks, [stage |-> "Semantic",
                                 res |-> semantic_check(sql, semRead.tables, schema_columns)])
    /\ pc' = "execution"
    /\ UNCHANGED <<store, expHasNodeTypes, schema_tables, schema_columns, sql, verdict,
                   storeAtCall, storeAtExec, ncalls, construction, idemVars, mainVars,
                   rpc, rmeta, reflections, nreflects,
                   pageVars>>

NextReflect ==
    \/ Construct
    \/ \E s \in ReflectInputs : Call(s)
    \/ SafetyStep
    \/ SemReadTables
    \/ SemReadColumns
    \/ ExecutionStep
    \/ ReturnStep
    \/ ReflectBegin
    \/ ReflectTables
    \/ ReflectColumns

SpecReflect == Init /\ [][NextReflect]_vars

-----------------------------------------------------------------------------
(* Properties.  The checks of the running call are checks[1] (Safety),     *)
(* checks[2] (Semantic) and checks[3] (Execution), present once evaluated. *)
(* A check "has returned" in the state its step leads to.                  *)

\* The input of the running call gave sqlglot.parse a first statement tree.
HasTree == ~ParseRaises(sql) /\ Parse(sql) # <<>> /\ Parse(sql)[1] # NoStatement

\* Some statement of the parse holds a DDL/DML node somewhere in its tree.
HasMutationNode(s) ==
    /\ ~ParseRaises(s)
    /\ \E k \in 1..Len(Parse(s)) : \E i \in 1..Len(NodeTypes) : find(Parse(s)[k], NodeTypes[i])

SafetyReturned   == pc = "semantic"
SemanticReturned == pc = "execution"
Returned     == verdict.kind = "returned"

\* C1: validate stops at the first failing stage -- no stage is evaluated
\* after a stage that returned False (so a failed Safety or Semantic check
\* keeps the SQL from being sent to the store).
C1_StopsAtFirstFailure ==
    \A i \in 1..Len(checks) : ~checks[i].res.ok => Len(checks) = i

\* C2: execution_check always reverts its transaction -- when it has
\* returned, the store is what it was when execution_check was entered.
C2_ExecutionCheckReverts ==
    pc = "loop" => store = storeAtExec

\* C3: validate never changes the persisted data or schema -- after any
\* sequence of validate calls the store equals its initial state.
C3_StoreNeverChanges ==
    store = InitStore

\* C4: an input whose parse holds a Drop, Create, Alter, Truncate, Rename,
\* Delete, Insert or Update node gets passed=false with a message that
\* starts "Safety failed:".
C4_MutationFailsSafety ==
    (Returned /\ HasMutationNode(sql)) => (~verdict.ok /\ verdict.stage = "Safety")

\* C5: when parsing succeeds, safety_check returns True only for a root
\* SELECT without DDL/DML nodes; another root kind is rejected as
\* "Unsafe: Non-SELECT statement", and an empty parse result is rejected.
C5_OnlySelectRootIsSafe ==
    (SafetyReturned /\ ~ParseRaises(sql)) =>
        LET r == checks[1].res
        IN  /\ r.ok => (HasTree /\ Parse(sql)[1].kind = "Select"
                        /\ ~HasMutationNode(sql))
            /\ (HasTree /\ Parse(sql)[1].kind # "Select" /\ ~HasMutationNode(sql))
                   => r = Ret(FALSE, Msg("Unsafe: Non-SELECT statement", {}))
            /\ ~HasTree => ~r.ok

\* C6: when parsing raises, safety_check answers by the keyword check on the
\* upper-cased text (rejects iff a harmful keyword is a substring) and the
\* fallback never raises.
C6_FallbackIsLexicalAndTotal ==
    ParseRaises(sql) =>
        /\ verdict.kind # "raised"
        /\ SafetyReturned =>
               checks[1].res.ok =
                   ~(\E k \in harmful_keywords : Contains(Upper(TextOf(sql)), k))

\* C7: a SQL string that cannot be parsed (the parse raises, or gives no
\* statement) is rejected by semantic_check and never gets passed=true from
\* validate, also when the lexical fallback of the Safety stage accepted it.
C7_UnparsableNeverPasses ==
    ~HasTree =>
        /\ SemanticReturned => ~checks[2].res.ok
        /\ Returned => ~verdict.ok

\* C7 witness: validate returned on an unparsable text that the lexical
\* fallback had accepted, with a Semantic failure.
C7_Witness ==
    /\ Returned
    /\ sql = Named("u_sel")
    /\ checks[1].res = Ret(TRUE, Msg("Safe - Keyword check passed", {}))
    /\ ~verdict.ok
    /\ verdict.stage = "Semantic"

\* C8: validate never raises -- every call, also on the empty string and on
\* None, ends by returning a verdict.
C8_ValidateNeverRaises ==
    verdict.kind # "raised"

\* C9: real_columns never holds a name of select_aliases or cte_columns, so
\* a name used as an alias is never reported as a missing column.
C9_AliasesAreNotRealColumns ==
    (SemanticReturned /\ HasTree) =>
        LET ast == Parse(sql)[1]
            local == all_select_aliases(ast) \cup cte_columns(ast)
        IN  /\ real_columns(ast) \cap local = {}
            /\ checks[2].res.msg.fmt = "Missing columns: %s"
                   => checks[2].res.msg.arg \cap local = {}

\* C9 witness: semantic_check has accepted
\* SELECT value AS total FROM readings WHERE total > 0, where `total` is an
\* alias, is read as a column in WHERE and is no column of the catalogue.
C9_Witness ==
    /\ SemanticReturned
    /\ sql = Named("q_alias")
    /\ "total" \in all_select_aliases(Parse(sql)[1])
    /\ \E o \in find_all(Parse(sql)[1], "Column") : o.node.name = "total" /\ ~o.underAlias
    /\ "total" \notin schema_columns
    /\ checks[2].res.ok

\* C10 as stated: semantic_check accepts iff missing_tables and
\* missing_columns are both empty, and a rejection's reason enumerates the
\* missing names.
C10_ReasonEnumeratesAllMissing ==
    (SemanticReturned /\ HasTree) =>
        LET mt == missing_tables(Parse(sql)[1], schema_tables)
            mc == missing_columns(Parse(sql)[1], schema_columns)
            r == checks[2].res
        IN  /\ r.ok <=> (mt = {} /\ mc = {})
            /\ ~r.ok => r.msg.arg = mt \cup mc

\* C10 amended: semantic_check accepts iff missing_tables and
\* missing_columns are both empty; a rejection's reason enumerates the
\* missing tables when there are any, and the missing columns otherwise.
C10_AcceptsIffNothingMissing ==
    (SemanticReturned /\ HasTree) =>
        LET mt == missing_tables(Parse(sql)[1], schema_tables)
            mc == missing_columns(Parse(sql)[1], schema_columns)
            r == checks[2].res
        IN  /\ r.ok <=> (mt = {} /\ mc = {})
            /\ mt # {} => r = Ret(FALSE, Msg("Missing tables: %s", mt))
            /\ (mt = {} /\ mc # {}) => r = Ret(FALSE, Msg("Missing columns: %s", mc))

\* C10 witness: SELECT bogus_col FROM readings against the catalogue
\* {readings} / {country, value} is rejected with bogus_col named as missing.
C10_Witness ==
    /\ SemanticReturned
    /\ sql = Named("q_bogus")
    /\ schema_tables = {"readings"}
    /\ schema_columns = {"country", "value"}
    /\ checks[2].res = Ret(FALSE, Msg("Missing columns: %s", {"bogus_col"}))

\* C11: names bound by WITH are never reported as missing tables, aliases of
\* a CTE's select list are never reported as missing columns, and used_tables
\* is the set of all table-reference names minus cte_names.
C11_CTENamesAreNotMissing ==
    (SemanticReturned /\ HasTree) =>
        LET ast == Parse(sql)[1]
            r == checks[2].res
        IN  /\ used_tables(ast) =
                   { o.node.name : o \in find_all(ast, "Table") } \ cte_names(ast)
            /\ missing_tables(ast, schema_tables) \cap cte_names(ast) = {}
            /\ r.msg.fmt = "Missing tables: %s" => r.msg.arg \cap cte_names(ast) = {}
            /\ r.msg.fmt = "Missing columns: %s" => r.msg.arg \cap cte_columns(ast) = {}

\* C11 witness: semantic_check has accepted
\* WITH c AS (SELECT value AS y FROM readings) SELECT y FROM c, where c is no
\* table and y no column of the catalogue.
C11_Witness ==
    /\ SemanticReturned
    /\ sql = Named("q_cte")
    /\ "c" \in cte_names(Parse(sql)[1]) /\ "c" \notin schema_tables
    /\ "y" \in cte_columns(Parse(sql)[1]) /\ "y" \notin schema_columns
    /\ checks[2].res.ok

\* A single SELECT statement that references only tables and columns of the
\* catalogue (or its own aliases and CTEs), none of which collides with a
\* schema name.
ValidSelectInCatalogue(s) ==
    /\ ~ParseRaises(s)
    /\ Len(Parse(s)) = 1
    /\ Parse(s)[1].kind = "Select"
    /\ ~HasMutationNode(s)
    /\ LET ast == Parse(s)[1]
           local == all_select_aliases(ast) \cup cte_columns(ast)
       IN  /\ ({ o.node.name : o \in find_all(ast, "Table") } \ cte_names(ast))
                  \subseteq schema_tables
           /\ ({ o.node.name : o \in find_all(ast, "Column") } \ local)
                  \subseteq schema_columns
           /\ local \cap schema_columns = {}
           /\ cte_names(ast) \cap schema_tables = {}

\* C12: a valid SELECT over the catalogue passes safety_check and
\* semantic_check, so that the Execution stage decides the verdict.
C12_ValidSelectReachesExecution ==
    /\ (SemanticReturned /\ ValidSelectInCatalogue(sql)) =>
           (checks[1].res.ok /\ checks[2].res.ok)
    /\ (Returned /\ sameInstance /\ ValidSelectInCatalogue(sql)) =>
           verdict.stage \in {"", "Execution"}

\* C13: validate returns passed=true ("All validations passed") iff all
\* three checks returned true; otherwise passed=false with the stage and the
\* reason of the earliest failing check, also when later checks fail too.
C13_VerdictIsEarliestFailure ==
    Returned =>
        /\ Len(checks) = 3
        /\ <<checks[1].stage, checks[2].stage, checks[3].stage>>
               = <<"Safety", "Semantic", "Execution">>
        /\ verdict.ok <=> (\A i \in 1..3 : checks[i].res.ok)
        /\ verdict.ok => (verdict.stage = "" /\ verdict.msg = Msg("All validations passed", {}))
        /\ ~verdict.ok =>
               \E i \in 1..3 :
                   /\ ~checks[i].res.ok
                   /\ \A j \in 1..(i - 1) : checks[j].res.ok
                   /\ verdict.stage = checks[i].stage
                   /\ verdict.msg = checks[i].res.msg

\* C13 witness: all three checks failed (drop table 'x) and validate returned
\* the Safety failure.
C13_Witness ==
    /\ Returned
    /\ sql = Named("u_drop")
    /\ \A i \in 1..3 : ~checks[i].res.ok
    /\ verdict.stage = "Safety"
    /\ verdict.msg = Msg("Unsafe: Harmful keyword detected", {})

\* C14: validate called twice in succession with the same SQL on the same
\* instance returns the same verdict both times (no actor but the validator
\* touches the store or the catalogue in between).
C14_SameVerdictTwice ==
    (Returned /\ sameInstance /\ prevVerdict.kind = "returned") => verdict = prevVerdict

\* C14 witness: the second of two successive calls with
\* SELECT country FROM readings on one instance has returned, and so had the
\* first.
C14_Witness ==
    /\ Returned
    /\ sameInstance
    /\ ncalls = 2
    /\ sql = Named("q_ok")
    /\ prevVerdict.kind = "returned"
    /\ prevVerdict.ok
    /\ verdict.ok

\* C15: the catalogue is read-only during validation -- no step of validate
\* changes schema_tables or schema_columns; they change only in a reflection
\* of the store.
C15_CatalogueReadOnly ==
    [][ /\ pc \in {"safety", "semantic", "execution", "loop"}
           => UNCHANGED <<schema_tables, schema_columns>>
        /\ <<schema_tables, schema_columns>>' # <<schema_tables, schema_columns>>
           => /\ schema_tables' = reflect_tables(store)
              /\ schema_columns' = reflect_columns(store) ]_vars

\* C15 witness: the probe has dropped the table and the catalogue still
\* holds what was reflected before the call.
C15_Witness ==
    /\ pc = "loop"
    /\ "readings" \notin DOMAIN store
    /\ schema_tables = {"readings"}
    /\ schema_columns = {"country", "value"}

\* C17: when the store cannot be opened or introspected the constructor fails
\* and no instance becomes usable: validate only ever runs on an instance
\* whose constructor completed, against a catalogue that was fully reflected
\* from a store.
C17_NoValidatorWithoutReflection ==
    /\ construction = "failed" => pc = "none"
    /\ pc # "none" =>
           /\ construction = "ok"
           /\ \E st \in reflections :
                  /\ schema_tables = reflect_tables(st)
                  /\ schema_columns = reflect_columns(st)

\* C17 witness: after a completed validate call a new construction has
\* failed, and no instance is left to call.
C17_Witness ==
    /\ construction = "failed"
    /\ pc = "none"
    /\ ncalls = 1
    /\ Returned

\* C16: a semantic_check running concurrently with _reflect_schema on the same
\* validator reads schema_tables and schema_columns that both come from one
\* reflection, never new tables together with old columns.
C16_SemanticReadsOneReflection ==
    pc = "execution" =>
        \E st \in reflections :
            /\ semRead.tables = reflect_tables(st)
            /\ semRead.columns = reflect_columns(st)

\* C19: when the statement raises inside execution_check, the error comes
\* back as (False, reason) with the store's error text in the reason, and the
\* store is what it was before the call.
C19_FailedProbeIsRolledBack ==
    (pc = "loop" /\ ~Execute(sql, storeAtExec).ok) =>
        /\ checks[3].res =
               Ret(FALSE, Msg("Runtime error: %s", {Execute(sql, storeAtExec).err}))
        /\ store = storeAtExec

\* C19 witness: execution_check has returned the store's error for
\* SELECT bogus_col FROM readings and left the store as it was.
C19_Witness ==
    /\ pc = "loop"
    /\ sql = Named("q_bogus")
    /\ checks[3].res = Ret(FALSE, Msg("Runtime error: %s", {"no such column"}))
    /\ store = storeAtExec

\* An input of several statements whose first statement is a SELECT that is
\* valid against the catalogue and whose later statements mutate.
SelectThenMutation(s) ==
    /\ ~ParseRaises(s)
    /\ Len(Parse(s)) > 1
    /\ Parse(s)[1].kind = "Select"
    /\ ~(\E i \in 1..Len(NodeTypes) : find(Parse(s)[1], NodeTypes[i]))
    /\ missing_tables(Parse(s)[1], schema_tables) = {}
    /\ missing_columns(Parse(s)[1], schema_columns) = {}
    /\ HasMutationNode(s)

\* C20 as stated: safety_check and semantic_check examine only parsed[0] and
\* execution_check gets the whole text, so a valid SELECT followed by a
\* mutating statement passes both the Safety and the Semantic stage.
C20_SelectThenMutationPasses ==
    /\ (SemanticReturned /\ SelectThenMutation(sql)) =>
           (checks[1].res.ok /\ checks[2].res.ok)
    /\ (pc = "loop" /\ SelectThenMutation(sql)) =>
           checks[3].res = execution_check(sql, storeAtExec).res

\* The names of the column references that do not lie beneath an Alias node.
ColumnsOutsideAlias(ast) ==
    { o.node.name : o \in { p \in find_all(ast, "Column") : ~p.underAlias } }

\* C21: a column reference beneath an alias-definition node is never checked
\* against the catalogue, whatever its name -- semantic_check reports as
\* missing only names that also occur outside every alias definition, and it
\* accepts a statement over known tables whose column references all sit
\* inside aliased projections, also when their names are not in the catalogue.
C21_ColumnsUnderAliasUnchecked ==
    (SemanticReturned /\ HasTree) =>
        LET ast == Parse(sql)[1]
            r == checks[2].res
        IN  /\ r.msg.fmt = "Missing columns: %s" => r.msg.arg \subseteq ColumnsOutsideAlias(ast)
            /\ (ColumnsOutsideAlias(ast) = {} /\ used_tables(ast) \subseteq schema_tables)
                   => r = Ret(TRUE, Msg("Schema valid", {}))

\* C21 witness: semantic_check has accepted
\* SELECT AVG(bogus_col) AS x FROM readings, whose only column reference is
\* beneath the alias and names no column of the catalogue.
C21_Witness ==
    /\ SemanticReturned
    /\ sql = Named("q_aliasbog")
    /\ { o.node.name : o \in find_all(Parse(sql)[1], "Column") } = {"bogus_col"}
    /\ ColumnsOutsideAlias(Parse(sql)[1]) = {}
    /\ "bogus_col" \notin schema_columns
    /\ schema_tables = {"readings"}
    /\ checks[2].res = Ret(TRUE, Msg("Schema valid", {}))

=============================================================================
